---- MODULE Spec2Model ----
(***************************************************************************)
(* The optimistic Collection of packages/optimistic/src/collection.ts:     *)
(* synced data fed by the begin/write/commit ingestion callbacks, the      *)
(* optimistic overlay (derivedState) computed from the synced data and the *)
(* mutations of the live transactions, the insert/update/delete mutation   *)
(* API, the object => key association and the first-commit callbacks.      *)
(***************************************************************************)
EXTENDS Integers, Sequences, FiniteSets, TLC

(***************************************************************************)
(* Bounds of the model.                                                    *)
(***************************************************************************)
\* transactions ever created
MaxTx == 2
\* transactions ever created, where the ingestion protocol is explored
SyncTx == 1
\* buffers in pendingSyncedTransactions
MaxQueue == 1
\* buffers in pendingSyncedTransactions, where begin() is explored
OpenQueue == 2
\* change messages in one buffer
MaxOps == 1
\* callbacks ever registered with onFirstCommit
MaxCb == 2
\* record references the caller keeps
MaxHeld == 1
\* mutations in one insert/update/delete call
MaxBatch == 2

\* promises ever created
MaxPromises == 2

Keys == {"k1", "k2"}
\* the collection ids given to preloadCollection
CollectionIds == {"c1"}
\* iteration order of the keys of a Map / Set (insertion order abstracted)
KeySeq == <<"k1", "k2">>
Fields == {"a", "b"}
Vals == {"x", "y"}
\* a field a record does not have; an absent metadata value
Undef == "undef"

\* Object identities. The pool holds every object that can be referenced at
\* once: the synced and the overlay records (old and new during a merge), the
\* inserted items and the caller's references.
MaxObj == 3 * Cardinality(Keys) + MaxTx * MaxBatch + MaxHeld + 1
Ids == 1 .. MaxObj

(***************************************************************************)
(* Records are JavaScript objects with the fields of Fields; a field that  *)
(* is absent maps to Undef.                                                *)
(***************************************************************************)
Records == [Fields -> Vals \cup {Undef}]
EmptyRecord == [f \in Fields |-> Undef]
\* the tombstone { _deleted: true } of a delete mutation: no field of Fields
Tombstone == [f \in Fields |-> Undef]

\* { ...a, ...b }
Spread(a, b) == [f \in Fields |-> IF b[f] # Undef THEN b[f] ELSE a[f]]

\* { ...a, ...b } of two metadata values (one opaque field)
SpreadMeta(a, b) == IF b # Undef THEN b ELSE a

(***************************************************************************)
(* Map<string, V> as a function whose domain is a subset of Keys.          *)
(***************************************************************************)
EmptyMap == [k \in {} |-> 0]
MapHas(m, k) == k \in DOMAIN m
MapSet(m, k, v) == [x \in (DOMAIN m) \cup {k} |-> IF x = k THEN v ELSE m[x]]
MapDelete(m, k) == [x \in (DOMAIN m) \ {k} |-> m[x]]
MapIds(m) == {m[k].id : k \in DOMAIN m}
\* the records of a Map of objects, without the identities
MapVals(m) == [k \in DOMAIN m |-> m[k].val]

Last(s) == s[Len(s)]

VARIABLES
  \* Collection.syncedData: Map key -> object [id, val]
  syncedData,
  \* Collection.syncedMetadata: Map key -> metadata
  syncedMetadata,
  \* Collection.pendingSyncedTransactions: Seq of [committed, operations]
  pendingSyncedTransactions,
  \* Collection.hasReceivedFirstCommit
  hasReceivedFirstCommit,
  \* Collection.onFirstCommitCallbacks: Seq of [id, kind]
  onFirstCommitCallbacks,
  \* Collection.objectKeyMap: WeakMap object -> key, over the reachable objects
  objectKeyMap,
  \* transactionManager.transactions: Seq of [state, mutations], in creation order
  transactions,
  \* derivedState.state: the overlay, Map key -> object [id, val]
  state,
  \* the record references the caller keeps (objects read from state)
  held,
  \* the error the last call threw, or "none"
  thrown,
  \* the first-commit callbacks that ran, in the order they ran
  invoked,
  \* the number of callbacks registered so far
  cbCount,
  \* the promises the calls created: Seq of [kind, status, value]
  promises,
  \* the promise the last call returned (its place in promises), 0 if none
  returned,
  \* collectionsStore.state: Map collection id -> Collection (its number)
  collectionsStore,
  \* loadingCollections: Map collection id -> promise
  loadingCollections,
  \* the Collection instances constructed; each construction calls sync() once
  instances,
  \* Collection.config: [mutationFn, schema], whether each is provided
  config

vars == <<syncedData, syncedMetadata, pendingSyncedTransactions,
          hasReceivedFirstCommit, onFirstCommitCallbacks, objectKeyMap,
          transactions, state, held, thrown, invoked, cbCount, promises,
          returned, collectionsStore, loadingCollections, instances, config>>

\* The collection as one record, so that a method is a function on it.
Self ==
  [syncedData |-> syncedData, syncedMetadata |-> syncedMetadata,
   pendingSyncedTransactions |-> pendingSyncedTransactions,
   hasReceivedFirstCommit |-> hasReceivedFirstCommit,
   onFirstCommitCallbacks |-> onFirstCommitCallbacks,
   objectKeyMap |-> objectKeyMap, transactions |-> transactions,
   state |-> state, held |-> held, thrown |-> thrown, invoked |-> invoked,
   cbCount |-> cbCount, promises |-> promises, returned |-> returned,
   collectionsStore |-> collectionsStore,
   loadingCollections |-> loadingCollections, instances |-> instances,
   config |-> config]

(***************************************************************************)
(* Object identities.                                                      *)
(***************************************************************************)
RECURSIVE SeqIds(_, _)
\* the identities of the values of a sequence of messages / mutations
SeqIds(ops, i) ==
  IF i > Len(ops) THEN {}
  ELSE (IF ops[i].obj = 0 THEN {} ELSE {ops[i].obj}) \cup SeqIds(ops, i + 1)

\* the smallest identity that is not in use
NewId(used) == CHOOSE i \in Ids \ used : \A j \in Ids \ used : i <= j

(***************************************************************************)
(* optimisticOperations: the mutations of the transactions that are        *)
(* neither completed nor failed, as change messages, flattened.            *)
(***************************************************************************)
\* a filter that lets the failed transactions through
OptimisticFilterCompletedOnly(transaction) == transaction.state # "completed"

OptimisticFilter(transaction) ==
  transaction.state # "completed" /\ transaction.state # "failed"

MutationMessage(mutation) ==
  [type |-> mutation.type, key |-> mutation.key, value |-> mutation.modified,
   obj |-> mutation.obj]

\* a map that stops after a transaction's first mutation
MapMutationsFirstOnly(mutations, i) ==
  IF i > 1 THEN <<>> ELSE <<MutationMessage(mutations[1])>>

RECURSIVE MapMutations(_, _)
MapMutations(mutations, i) ==
  IF i > Len(mutations) THEN <<>>
  ELSE <<MutationMessage(mutations[i])>> \o MapMutations(mutations, i + 1)

RECURSIVE FlatOperations(_, _)
FlatOperations(txs, i) ==
  IF i > Len(txs) THEN <<>>
  ELSE (IF OptimisticFilter(txs[i]) THEN MapMutations(txs[i].mutations, 1)
        ELSE <<>>) \o FlatOperations(txs, i + 1)

optimisticOperations(txs) == FlatOperations(txs, 1)

\* the objects the live transactions' insert mutations carry
LiveInsertIds(txs) == SeqIds(optimisticOperations(txs), 1)

(***************************************************************************)
(* derivedState: the synced data with the optimistic operations applied.   *)
(* An update puts a new object { ...synced, ...value } in the Map: its     *)
(* identity is 0 until AssignFresh gives it one.                           *)
(***************************************************************************)
\* an overlay step that leaves a deleted key in the Map
ApplyOperationKeepsDeleted(combined, synced, operation) ==
  CASE operation.type = "insert" ->
         MapSet(combined, operation.key,
                [id |-> operation.obj, val |-> operation.value])
    [] operation.type = "update" ->
         MapSet(combined, operation.key,
                [id |-> 0,
                 val |-> Spread(IF MapHas(synced, operation.key)
                                THEN synced[operation.key].val
                                ELSE EmptyRecord,
                                operation.value)])
    [] operation.type = "delete" -> combined

ApplyOperation(combined, synced, operation) ==
  CASE operation.type = "insert" ->
         MapSet(combined, operation.key,
                [id |-> operation.obj, val |-> operation.value])
    [] operation.type = "update" ->
         MapSet(combined, operation.key,
                [id |-> 0,
                 val |-> Spread(IF MapHas(synced, operation.key)
                                THEN synced[operation.key].val
                                ELSE EmptyRecord,
                                operation.value)])
    [] operation.type = "delete" -> MapDelete(combined, operation.key)

RECURSIVE ApplyOperations(_, _, _)
ApplyOperations(combined, synced, operations) ==
  IF operations = <<>> THEN combined
  ELSE ApplyOperations(ApplyOperation(combined, synced, Head(operations)),
                       synced, Tail(operations))

RECURSIVE AssignFresh(_, _, _)
AssignFresh(m, used, i) ==
  IF i > Len(KeySeq) THEN m
  ELSE LET k == KeySeq[i] IN
       IF MapHas(m, k) /\ m[k].id = 0
       THEN LET n == NewId(used) IN
            AssignFresh(MapSet(m, k, [id |-> n, val |-> m[k].val]),
                        used \cup {n}, i + 1)
       ELSE AssignFresh(m, used, i + 1)

RECURSIVE OperationKeys(_, _)
OperationKeys(operations, i) ==
  IF i > Len(operations) THEN {}
  ELSE {operations[i].key} \cup OperationKeys(operations, i + 1)

\* objectKeyMap.set(m.get(key), key) for every key of keys that m has
TrackKeys(okm, m, keys) ==
  LET ks == keys \cap DOMAIN m
      ids == {m[k].id : k \in ks}
  IN [i \in (DOMAIN okm) \cup ids |->
        IF i \in ids THEN CHOOSE k \in ks : m[k].id = i ELSE okm[i]]

\* the WeakMap keeps an entry only while its object is reachable
Reachable(okm, live) == [i \in (DOMAIN okm) \cap live |-> okm[i]]

\* the objects reachable apart from the overlay's own new objects
BaseIds(c) ==
  MapIds(c.syncedData) \cup LiveInsertIds(c.transactions) \cup c.held

LiveIds(c) == BaseIds(c) \cup MapIds(c.state)

\* the derivedState fn, run when syncedData or optimisticOperations changed
derivedState(c) ==
  LET operations == optimisticOperations(c.transactions)
      used == BaseIds(c)
      combined == AssignFresh(
                    ApplyOperations(c.syncedData, c.syncedData, operations),
                    used, 1)
  IN [c EXCEPT !.state = combined,
               !.objectKeyMap =
                  TrackKeys(Reachable(c.objectKeyMap, used), combined,
                            OperationKeys(operations, 1))]

(***************************************************************************)
(* The outcome of a call: the collection as it leaves it, and what it      *)
(* threw.  A throw leaves the collection as it was when the error was      *)
(* raised.                                                                 *)
(***************************************************************************)
Throw(c, message) == [c EXCEPT !.thrown = message]

\* identities that a new object must not take
UsedIds(c) == LiveIds(c) \cup DOMAIN c.objectKeyMap

(***************************************************************************)
(* commitPendingTransactions                                               *)
(***************************************************************************)
\* a terminal set that leaves "failed" out
terminalStatesCompletedOnly == {"completed"}

terminalStates == {"completed", "failed"}

\* a test that takes "persisting" for terminal
isNotTerminalStatePendingOnly(transaction) == transaction.state = "pending"

isNotTerminalState(transaction) == transaction.state \notin terminalStates

\* a gate that a failed transaction keeps closed
CanCommitAllCompleted(txs) ==
  \A i \in 1 .. Len(txs) : txs[i].state = "completed"

\* the condition under which the pending synced transactions are applied
CanCommit(txs) ==
  Len(txs) = 0 \/ ~(\E i \in 1 .. Len(txs) : isNotTerminalState(txs[i]))

\* a loop over the operations of the last buffer only
QueuedOperationsLastOnly(pst, i) ==
  IF pst = <<>> THEN <<>> ELSE pst[Len(pst)].operations

RECURSIVE QueuedOperations(_, _)
\* for (const transaction of pendingSyncedTransactions)
\*   for (const operation of transaction.operations)
QueuedOperations(pst, i) ==
  IF i > Len(pst) THEN <<>>
  ELSE pst[i].operations \o QueuedOperations(pst, i + 1)

\* a metadata store that keeps the entry of a deleted key
SetSyncedMetadataKeepsDeleted(prevData, operation) ==
  CASE operation.type = "insert" ->
         MapSet(prevData, operation.key, operation.metadata)
    [] operation.type = "update" ->
         MapSet(prevData, operation.key,
                SpreadMeta(IF MapHas(prevData, operation.key)
                           THEN prevData[operation.key] ELSE Undef,
                           operation.metadata))
    [] operation.type = "delete" -> prevData

\* this.syncedMetadata.setState(...)
SetSyncedMetadata(prevData, operation) ==
  CASE operation.type = "insert" ->
         MapSet(prevData, operation.key, operation.metadata)
    [] operation.type = "update" ->
         MapSet(prevData, operation.key,
                SpreadMeta(IF MapHas(prevData, operation.key)
                           THEN prevData[operation.key] ELSE Undef,
                           operation.metadata))
    [] operation.type = "delete" -> MapDelete(prevData, operation.key)

\* this.syncedData.setState(...); an update makes a new object, and the
\* value of an insert message is an object the collection has not seen
\* an insert that merges onto the previous record instead of replacing it
SetSyncedDataMerging(prevData, operation, used) ==
  IF operation.type = "delete" THEN MapDelete(prevData, operation.key)
  ELSE MapSet(prevData, operation.key,
              [id |-> NewId(used),
               val |-> Spread(IF MapHas(prevData, operation.key)
                              THEN prevData[operation.key].val
                              ELSE EmptyRecord,
                              operation.value)])

SetSyncedData(prevData, operation, used) ==
  CASE operation.type = "insert" ->
         MapSet(prevData, operation.key,
                [id |-> NewId(used), val |-> operation.value])
    [] operation.type = "update" ->
         MapSet(prevData, operation.key,
                [id |-> NewId(used),
                 val |-> Spread(IF MapHas(prevData, operation.key)
                                THEN prevData[operation.key].val
                                ELSE EmptyRecord,
                                operation.value)])
    [] operation.type = "delete" -> MapDelete(prevData, operation.key)

RECURSIVE ApplySynced(_, _)
ApplySynced(c, operations) ==
  IF operations = <<>> THEN c
  ELSE LET operation == Head(operations) IN
       ApplySynced(
         [c EXCEPT !.syncedMetadata = SetSyncedMetadata(@, operation),
                   !.syncedData = SetSyncedData(@, operation, UsedIds(c))],
         Tail(operations))

RECURSIVE ArrayFrom(_, _, _)
ArrayFrom(m, keys, i) ==
  IF i > Len(keys) THEN <<>>
  ELSE (IF MapHas(m, keys[i]) THEN <<m[keys[i]].val>> ELSE <<>>)
       \o ArrayFrom(m, keys, i + 1)

\* derivedArray: Array.from(stateMap.values()), the values taken in the
\* order of the keys
derivedArray(c) == ArrayFrom(c.state, KeySeq, 1)

\* callback(): a "plain" callback only runs; a "rereg" callback calls
\* onFirstCommit with itself again; the others are the callbacks that
\* stateWhenReady, toArrayWhenReady and preloadCollection register
RunCallback(c, callback) ==
  LET ran == [c EXCEPT !.invoked = Append(@, callback.id)] IN
  CASE callback.kind = "plain" -> ran
    [] callback.kind = "rereg" ->
         [ran EXCEPT !.onFirstCommitCallbacks = Append(@, callback)]
    \* stateWhenReady: resolve(this.state)
    [] callback.kind = "state" ->
         [ran EXCEPT !.promises[callback.promise] =
                        [@ EXCEPT !.status = "resolved",
                                  !.value = MapVals(c.state)]]
    \* toArrayWhenReady: resolve(this.toArray)
    [] callback.kind = "array" ->
         [ran EXCEPT !.promises[callback.promise] =
                        [@ EXCEPT !.status = "resolved",
                                  !.value = derivedArray(c)]]
    \* preloadCollection: if (loadingCollections.has(config.id)) ...
    [] callback.kind = "preload" ->
         IF MapHas(c.loadingCollections, callback.config)
         THEN [ran EXCEPT !.loadingCollections =
                             MapDelete(@, callback.config),
                          !.promises[callback.promise] =
                             [@ EXCEPT !.status = "resolved",
                                       !.value = <<callback.collection>>]]
         ELSE ran

RECURSIVE RunCallbacks(_, _)
\* callbacks.forEach((callback) => callback())
RunCallbacks(c, callbacks) ==
  IF callbacks = <<>> THEN c
  ELSE RunCallbacks(RunCallback(c, Head(callbacks)), Tail(callbacks))

\* listeners called at every merge
FirstCommitEveryTime(c) ==
  RunCallbacks([c EXCEPT !.hasReceivedFirstCommit = TRUE,
                         !.onFirstCommitCallbacks = <<>>],
               c.onFirstCommitCallbacks)

\* the one-time commit listeners
FirstCommit(c) ==
  IF ~c.hasReceivedFirstCommit
  THEN RunCallbacks([c EXCEPT !.hasReceivedFirstCommit = TRUE,
                              !.onFirstCommitCallbacks = <<>>],
                    c.onFirstCommitCallbacks)
  ELSE c

commitPendingTransactions(c) ==
  IF CanCommit(c.transactions)
  THEN LET operations == QueuedOperations(c.pendingSyncedTransactions, 1)
           keys == OperationKeys(operations, 1)
           \* batch(() => ...): the stores notify once, after the loop
           c1 == ApplySynced(c, operations)
           c2 == IF operations # <<>> THEN derivedState(c1) ELSE c1
           c3 == [c2 EXCEPT !.objectKeyMap = TrackKeys(@, c2.state, keys)]
           c4 == [c3 EXCEPT !.pendingSyncedTransactions = <<>>]
       IN FirstCommit(c4)
  ELSE c

(***************************************************************************)
(* The callbacks given to config.sync.sync                                 *)
(***************************************************************************)
begin(c) ==
  [c EXCEPT !.pendingSyncedTransactions =
              Append(@, [committed |-> FALSE, operations |-> <<>>])]

\* a write that does not look at the committed flag
writeUnchecked(c, message) ==
  LET pst == c.pendingSyncedTransactions IN
  IF Len(pst) = 0
  THEN Throw(c, "No pending sync transaction to write to")
  ELSE [c EXCEPT !.pendingSyncedTransactions[Len(pst)].operations =
                    Append(@, message)]

write(c, message) ==
  LET pst == c.pendingSyncedTransactions IN
  IF Len(pst) = 0
  THEN Throw(c, "No pending sync transaction to write to")
  ELSE IF Last(pst).committed
  THEN Throw(c, "The pending sync transaction is already committed, you can't still write to it.")
  ELSE [c EXCEPT !.pendingSyncedTransactions[Len(pst)].operations =
                    Append(@, message)]

commit(c) ==
  LET pst == c.pendingSyncedTransactions IN
  IF Len(pst) = 0
  THEN Throw(c, "No pending sync transaction to commit")
  ELSE IF Last(pst).committed
  THEN Throw(c, "The pending sync transaction is already committed, you can't commit it again.")
  ELSE commitPendingTransactions(
         [c EXCEPT !.pendingSyncedTransactions[Len(pst)].committed = TRUE])

\* Collection.onFirstCommit
onFirstCommit(c, callback) ==
  [c EXCEPT !.onFirstCommitCallbacks = Append(@, callback)]

(***************************************************************************)
(* stateWhenReady, toArrayWhenReady: the promise is the next of promises.  *)
(***************************************************************************)
NewPromise(c, kind, status, value) ==
  [c EXCEPT !.promises =
              Append(@, [kind |-> kind, status |-> status, value |-> value]),
            !.returned = Len(c.promises) + 1]

\* onFirstCommit(() => resolve(...)) on a new promise
WaitFirstCommit(c, kind) ==
  onFirstCommit([NewPromise(c, kind, "pending", <<>>) EXCEPT !.cbCount = @ + 1],
                [id |-> c.cbCount + 1, kind |-> kind,
                 promise |-> Len(c.promises) + 1])

\* a ready test that looks at the size of the overlay only
stateWhenReadySizeOnly(c) ==
  IF Cardinality(DOMAIN c.state) > 0
  THEN NewPromise(c, "state", "resolved", MapVals(c.state))
  ELSE WaitFirstCommit(c, "state")

stateWhenReady(c) ==
  IF Cardinality(DOMAIN c.state) > 0 \/ c.hasReceivedFirstCommit = TRUE
  THEN NewPromise(c, "state", "resolved", MapVals(c.state))
  ELSE WaitFirstCommit(c, "state")

toArrayWhenReady(c) ==
  IF Len(derivedArray(c)) > 0 \/ c.hasReceivedFirstCommit = TRUE
  THEN NewPromise(c, "array", "resolved", derivedArray(c))
  ELSE WaitFirstCommit(c, "array")

(***************************************************************************)
(* preloadCollection(config).  config is given by its id and by what its   *)
(* sync() does when the constructor calls it: sync = <<>> when the source  *)
(* commits later, <<message>> when it calls begin, write(message), commit  *)
(* before it returns.                                                      *)
(***************************************************************************)
\* new Collection(config): the constructor ends with config.sync.sync(...)
Construct(c, sync) ==
  LET made == [c EXCEPT !.instances = @ + 1] IN
  IF sync = <<>> THEN made ELSE commit(write(begin(made), sync[1]))

\* a preloadCollection that does not look for a loading promise
preloadCollectionNoLoadingCheck(c, id, sync) ==
  IF MapHas(c.collectionsStore, id) /\ ~MapHas(c.loadingCollections, id)
  THEN NewPromise(c, "preload", "resolved", <<c.collectionsStore[id]>>)
  ELSE LET c1 == IF ~MapHas(c.collectionsStore, id)
                 THEN [Construct(c, sync) EXCEPT
                         !.collectionsStore = MapSet(@, id, c.instances + 1)]
                 ELSE c
           collection == c1.collectionsStore[id]
           firstCommitPromise == Len(c1.promises) + 1
           c2 == onFirstCommit(
                   [NewPromise(c1, "preload", "pending", <<>>)
                      EXCEPT !.cbCount = @ + 1],
                   [id |-> c1.cbCount + 1, kind |-> "preload",
                    promise |-> firstCommitPromise, config |-> id,
                    collection |-> collection])
       IN [c2 EXCEPT !.loadingCollections =
                        MapSet(@, id, firstCommitPromise)]

preloadCollection(c, id, sync) ==
  IF MapHas(c.collectionsStore, id) /\ ~MapHas(c.loadingCollections, id)
  THEN NewPromise(c, "preload", "resolved", <<c.collectionsStore[id]>>)
  ELSE IF MapHas(c.loadingCollections, id)
  THEN [c EXCEPT !.returned = c.loadingCollections[id]]
  ELSE LET c1 == IF ~MapHas(c.collectionsStore, id)
                 THEN [Construct(c, sync) EXCEPT
                         !.collectionsStore = MapSet(@, id, c.instances + 1)]
                 ELSE c
           collection == c1.collectionsStore[id]
           firstCommitPromise == Len(c1.promises) + 1
           c2 == onFirstCommit(
                   [NewPromise(c1, "preload", "pending", <<>>)
                      EXCEPT !.cbCount = @ + 1],
                   [id |-> c1.cbCount + 1, kind |-> "preload",
                    promise |-> firstCommitPromise, config |-> id,
                    collection |-> collection])
       IN [c2 EXCEPT !.loadingCollections =
                        MapSet(@, id, firstCommitPromise)]

(***************************************************************************)
(* TransactionManager (./TransactionManager is not part of the sources):   *)
(* applyTransaction creates the transaction in state pending and the       *)
(* overlay shows it before the call returns; the persistence function is   *)
(* then called (persisting) and its outcome makes the transaction          *)
(* completed or failed.  The merge of the pending synced transactions is   *)
(* retried whenever the set of transactions changes.                       *)
(***************************************************************************)
\* the transactions store is set: the Derived stores recompute, then the
\* manager has the collection retry its merge
setTransactions(c, txs) ==
  commitPendingTransactions(derivedState([c EXCEPT !.transactions = txs]))

applyTransaction(c, mutations) ==
  setTransactions(c, Append(c.transactions,
                            [state |-> "pending", mutations |-> mutations]))

setTransactionState(c, i, newState) ==
  setTransactions(c, [c.transactions EXCEPT ![i].state = newState])

(***************************************************************************)
(* The draft-diff tracker (./proxy is not part of the sources): the        *)
(* mutator writes the fields of writes that are not Undef; the result      *)
(* holds the fields whose value differs from the baseline.                 *)
(***************************************************************************)
withChangeTracking(target, writes) ==
  [f \in Fields |->
     IF writes[f] # Undef /\ writes[f] # target[f] THEN writes[f] ELSE Undef]

\* this.state.get(key) || {}
StateOrEmpty(c, key) ==
  IF MapHas(c.state, key) THEN c.state[key].val ELSE EmptyRecord

\* the schema of a config that has one: it rejects a record whose field a
\* is "y" and gives back the data it accepts
SchemaAccepts(data) == data["a"] # "y"

\* a validateData that returns the merged record it validated
validateDataReturnsMerged(c, data, type, key) ==
  IF ~c.config.schema THEN [ok |-> TRUE, value |-> data]
  ELSE IF type = "update" /\ key # Undef /\ MapHas(c.state, key)
  THEN [ok |-> SchemaAccepts(Spread(c.state[key].val, data)),
        value |-> Spread(c.state[key].val, data)]
  ELSE [ok |-> SchemaAccepts(data), value |-> data]

\* validateData: ok is FALSE where it throws a SchemaValidationError, value
\* is what it returns; an update is validated merged onto the existing record
validateData(c, data, type, key) ==
  IF ~c.config.schema THEN [ok |-> TRUE, value |-> data]
  ELSE IF type = "update" /\ key # Undef /\ MapHas(c.state, key)
  THEN [ok |-> SchemaAccepts(Spread(c.state[key].val, data)), value |-> data]
  ELSE [ok |-> SchemaAccepts(data), value |-> data]

NoMutationFn ==
  "Cannot use mutation operators without providing a mutationFn in the collection config"

(***************************************************************************)
(* insert(items, { key: keys })                                            *)
(***************************************************************************)
RECURSIVE InsertMutations(_, _, _, _, _)
\* items.forEach: one mutation per item; every item is an object of its own
InsertMutations(c, items, keys, i, used) ==
  IF i > Len(items) THEN <<>>
  ELSE LET validatedData == validateData(c, items[i], "insert", Undef).value
           n == NewId(used)
       IN <<[type |-> "insert", key |-> keys[i], original |-> EmptyRecord,
             modified |-> validatedData, changes |-> validatedData,
             obj |-> n]>>
          \o InsertMutations(c, items, keys, i + 1, used \cup {n})

insert(c, items, keys) ==
  IF ~c.config.mutationFn THEN Throw(c, NoMutationFn)
  ELSE IF \E i \in 1 .. Len(items) :
            ~validateData(c, items[i], "insert", Undef).ok
  THEN Throw(c, "SchemaValidationError")
  ELSE applyTransaction(c, InsertMutations(c, items, keys, 1, UsedIds(c)))

(***************************************************************************)
(* update(items, callback): items are object references, the callback is   *)
(* given by the fields it writes in each draft                             *)
(***************************************************************************)
RECURSIVE UpdateMutations(_, _, _, _)
\* keys.map(...).filter(Boolean)
UpdateMutations(c, keys, writes, i) ==
  IF i > Len(keys) THEN <<>>
  ELSE LET key == keys[i]
           \* currentObjects[i] = { ...(this.state.get(key) || {}) }
           changes == withChangeTracking(StateOrEmpty(c, key), writes[i])
           validatedData == validateData(c, changes, "update", key).value
       IN (IF changes = EmptyRecord THEN <<>>
           ELSE <<[type |-> "update", key |-> key,
                   original |-> StateOrEmpty(c, key),
                   modified |-> Spread(StateOrEmpty(c, key), validatedData),
                   changes |-> validatedData, obj |-> 0]>>)
          \o UpdateMutations(c, keys, writes, i + 1)

\* an update that does not stop when nothing was changed
updateEmptyTransaction(c, items, writes) ==
  IF ~c.config.mutationFn THEN Throw(c, NoMutationFn)
  ELSE IF \E i \in 1 .. Len(items) : items[i] \notin DOMAIN c.objectKeyMap
  THEN Throw(c, "Object not found in collection")
  ELSE LET keys == [i \in 1 .. Len(items) |-> c.objectKeyMap[items[i]]]
           mutations == UpdateMutations(c, keys, writes, 1)
       IN IF \E i \in 1 .. Len(mutations) :
               ~validateData(c, mutations[i].changes, "update",
                             mutations[i].key).ok
          THEN Throw(c, "SchemaValidationError")
          ELSE applyTransaction(c, mutations)

update(c, items, writes) ==
  IF ~c.config.mutationFn THEN Throw(c, NoMutationFn)
  ELSE IF \E i \in 1 .. Len(items) : items[i] \notin DOMAIN c.objectKeyMap
  THEN Throw(c, "Object not found in collection")
  ELSE LET keys == [i \in 1 .. Len(items) |-> c.objectKeyMap[items[i]]]
           mutations == UpdateMutations(c, keys, writes, 1)
       IN IF \E i \in 1 .. Len(mutations) :
               ~validateData(c, mutations[i].changes, "update",
                             mutations[i].key).ok
          THEN Throw(c, "SchemaValidationError")
          ELSE IF Len(mutations) = 0
          THEN Throw(c, "No changes were made to any of the objects")
          ELSE applyTransaction(c, mutations)

(***************************************************************************)
(* delete(items): an item is a key ([key |-> k]) or an object reference    *)
(* ([ref |-> id])                                                          *)
(***************************************************************************)
IsRef(item) == "ref" \in DOMAIN item

DeleteKey(c, item) == IF IsRef(item) THEN c.objectKeyMap[item.ref] ELSE item.key

RECURSIVE DeleteMutations(_, _, _)
DeleteMutations(c, items, i) ==
  IF i > Len(items) THEN <<>>
  ELSE LET key == DeleteKey(c, items[i]) IN
       <<[type |-> "delete", key |-> key, original |-> StateOrEmpty(c, key),
          modified |-> Tombstone, changes |-> Tombstone, obj |-> 0]>>
       \o DeleteMutations(c, items, i + 1)

RECURSIVE UntrackDeleted(_, _, _, _)
\* mutations.forEach: objectKeyMap.delete(this.state.get(mutation.key))
UntrackDeleted(okm, st, mutations, i) ==
  IF i > Len(mutations) THEN okm
  ELSE LET key == mutations[i].key
           next == IF MapHas(st, key)
                   THEN [x \in (DOMAIN okm) \ {st[key].id} |-> okm[x]]
                   ELSE okm
       IN UntrackDeleted(next, st, mutations, i + 1)

\* a delete that drops the identity association of each item as it goes
deleteUntracksFirst(c, items) ==
  IF ~c.config.mutationFn THEN Throw(c, NoMutationFn)
  ELSE IF \E i \in 1 .. Len(items) :
       IsRef(items[i]) /\ items[i].ref \notin DOMAIN c.objectKeyMap
  THEN LET first == CHOOSE i \in 1 .. Len(items) :
                      /\ IsRef(items[i])
                      /\ items[i].ref \notin DOMAIN c.objectKeyMap
                      /\ \A j \in 1 .. i - 1 :
                           IsRef(items[j]) => items[j].ref \in DOMAIN c.objectKeyMap
           done == DeleteMutations(c, SubSeq(items, 1, first - 1), 1)
       IN Throw([c EXCEPT !.objectKeyMap = UntrackDeleted(@, c.state, done, 1)],
                "Object not found in collection")
  ELSE LET mutations == DeleteMutations(c, items, 1) IN
       applyTransaction(
         [c EXCEPT !.objectKeyMap = UntrackDeleted(@, c.state, mutations, 1)],
         mutations)

delete(c, items) ==
  IF ~c.config.mutationFn THEN Throw(c, NoMutationFn)
  ELSE IF \E i \in 1 .. Len(items) :
       IsRef(items[i]) /\ items[i].ref \notin DOMAIN c.objectKeyMap
  THEN Throw(c, "Object not found in collection")
  ELSE LET mutations == DeleteMutations(c, items, 1) IN
       applyTransaction(
         [c EXCEPT !.objectKeyMap = UntrackDeleted(@, c.state, mutations, 1)],
         mutations)

(***************************************************************************)
(* The state machine.  Each action is one call from the sync source, the   *)
(* caller or the persistence function, run to its end.                     *)
(***************************************************************************)
\* the fields as the constructor leaves them, for a config and a number of
\* constructed instances
Constructed(cfg, n) ==
  /\ syncedData = EmptyMap
  /\ syncedMetadata = EmptyMap
  /\ pendingSyncedTransactions = <<>>
  /\ hasReceivedFirstCommit = FALSE
  /\ onFirstCommitCallbacks = <<>>
  /\ objectKeyMap = EmptyMap
  /\ transactions = <<>>
  /\ state = EmptyMap
  /\ held = {}
  /\ thrown = "none"
  /\ invoked = <<>>
  /\ cbCount = 0
  /\ promises = <<>>
  /\ returned = 0
  /\ collectionsStore = EmptyMap
  /\ loadingCollections = EmptyMap
  /\ instances = n
  /\ config = cfg

\* a config with a mutationFn and without a schema
DefaultConfig == [mutationFn |-> TRUE, schema |-> FALSE]

Configs == [mutationFn : BOOLEAN, schema : BOOLEAN]

\* new Collection(config) with the default config
Init == Constructed(DefaultConfig, 1)

\* new Collection(config) with any config
InitConfig == \E cfg \in Configs : Constructed(cfg, 1)

\* the module before any preloadCollection call: no Collection exists yet,
\* the variables of the collection hold what its constructor will give them
InitPreload == Constructed(DefaultConfig, 0)

(***************************************************************************)
(* Identities are opaque: after a call the reachable objects are renamed   *)
(* 1, 2, ... in the order synced data, live inserted items, overlay, kept  *)
(* references, so that two collections that differ only in the names of    *)
(* their objects are one state.                                            *)
(***************************************************************************)
RECURSIVE MapIdSeq(_, _)
MapIdSeq(m, i) ==
  IF i > Len(KeySeq) THEN <<>>
  ELSE (IF MapHas(m, KeySeq[i]) THEN <<m[KeySeq[i]].id>> ELSE <<>>)
       \o MapIdSeq(m, i + 1)

RECURSIVE MessageIdSeq(_, _)
MessageIdSeq(ops, i) ==
  IF i > Len(ops) THEN <<>>
  ELSE (IF ops[i].obj = 0 THEN <<>> ELSE <<ops[i].obj>>)
       \o MessageIdSeq(ops, i + 1)

RECURSIVE SortedIds(_)
SortedIds(set) ==
  IF set = {} THEN <<>>
  ELSE LET n == CHOOSE i \in set : \A j \in set : i <= j
       IN <<n>> \o SortedIds(set \ {n})

IdOrder(c) ==
  MapIdSeq(c.syncedData, 1)
    \o MessageIdSeq(optimisticOperations(c.transactions), 1)
    \o MapIdSeq(c.state, 1) \o SortedIds(c.held)

\* the new name of an object: its first place in IdOrder, 0 when unreachable
NewName(order, id) ==
  IF \E j \in 1 .. Len(order) : order[j] = id
  THEN LET first == CHOOSE j \in 1 .. Len(order) :
                      order[j] = id /\ \A l \in 1 .. j - 1 : order[l] # id
       IN Cardinality({order[l] : l \in 1 .. first})
  ELSE 0

RenameMap(m, order) ==
  [k \in DOMAIN m |-> [id |-> NewName(order, m[k].id), val |-> m[k].val]]

RenameTransactions(txs, order) ==
  [i \in 1 .. Len(txs) |->
     [state |-> txs[i].state,
      mutations |->
        [j \in 1 .. Len(txs[i].mutations) |->
           [txs[i].mutations[j] EXCEPT
              !.obj = NewName(order, txs[i].mutations[j].obj)]]]]

Canonical(c) ==
  LET order == IdOrder(c)
      live == {order[j] : j \in 1 .. Len(order)}
      okm == Reachable(c.objectKeyMap, live)
  IN [c EXCEPT
        !.syncedData = RenameMap(@, order),
        !.state = RenameMap(@, order),
        !.transactions = RenameTransactions(@, order),
        !.held = {NewName(order, r) : r \in @},
        !.objectKeyMap =
           [n \in {NewName(order, r) : r \in DOMAIN okm} |->
              okm[CHOOSE r \in DOMAIN okm : NewName(order, r) = n]]]

\* a call starts with nothing thrown and nothing returned
Start == [Self EXCEPT !.thrown = "none", !.returned = 0]

\* the collection as the call leaves it
Leave(c) ==
  \E n \in {Canonical(c)} :
  /\ syncedData' = n.syncedData
  /\ syncedMetadata' = n.syncedMetadata
  /\ pendingSyncedTransactions' = n.pendingSyncedTransactions
  /\ hasReceivedFirstCommit' = n.hasReceivedFirstCommit
  /\ onFirstCommitCallbacks' = n.onFirstCommitCallbacks
  /\ objectKeyMap' = n.objectKeyMap
  /\ transactions' = n.transactions
  /\ state' = n.state
  /\ held' = n.held
  /\ thrown' = n.thrown
  /\ invoked' = n.invoked
  /\ cbCount' = n.cbCount
  /\ promises' = n.promises
  /\ returned' = n.returned
  /\ collectionsStore' = n.collectionsStore
  /\ loadingCollections' = n.loadingCollections
  /\ instances' = n.instances
  /\ config' = n.config

\* a call that returns
Finish(c) == \E r \in {c} : r.thrown = "none" /\ Leave(r)

\* a call that throws
Fails(c) == \E r \in {c} : r.thrown # "none" /\ Leave(r)

\* the references a caller can pass: those it kept and those it reads now
Refs == held \cup MapIds(state)

\* the bound on the operations of a buffer
RoomToWrite(maxOps) ==
  IF Len(pendingSyncedTransactions) = 0 THEN TRUE
  ELSE Len(Last(pendingSyncedTransactions).operations) < maxOps

Begin(maxQueue) ==
  /\ Len(pendingSyncedTransactions) < maxQueue
  /\ Finish(begin(Start))

Write(messages, maxOps) ==
  \E message \in messages :
    RoomToWrite(maxOps) /\ Finish(write(Start, message))

WriteThrows(messages) ==
  \E message \in messages : Fails(write(Start, message))

Commit == Finish(commit(Start))

CommitThrows == Fails(commit(Start))

Insert(records, keySet, maxBatch, maxTx) ==
  /\ Len(transactions) < maxTx
  /\ \E n \in 1 .. maxBatch :
       \E items \in [1 .. n -> records], keys \in [1 .. n -> keySet] :
         Finish(insert(Start, items, keys))

InsertThrows(records, keySet, maxBatch) ==
  \E n \in 1 .. maxBatch :
    \E items \in [1 .. n -> records], keys \in [1 .. n -> keySet] :
      Fails(insert(Start, items, keys))

Update(writeSet, maxBatch, maxTx) ==
  /\ Len(transactions) < maxTx
  /\ \E n \in 1 .. maxBatch :
       \E items \in [1 .. n -> Refs], writes \in [1 .. n -> writeSet] :
         Finish(update(Start, items, writes))

UpdateThrows(writeSet, maxBatch) ==
  \E n \in 1 .. maxBatch :
    \E items \in [1 .. n -> Refs], writes \in [1 .. n -> writeSet] :
      Fails(update(Start, items, writes))

\* the items a caller can give to delete
DeleteItems == {[key |-> k] : k \in Keys} \cup {[ref |-> r] : r \in Refs}

Delete(maxBatch, maxTx) ==
  /\ Len(transactions) < maxTx
  /\ \E n \in 1 .. maxBatch :
       \E items \in [1 .. n -> DeleteItems] : Finish(delete(Start, items))

DeleteThrows(maxBatch) ==
  \E n \in 1 .. maxBatch :
    \E items \in [1 .. n -> DeleteItems] : Fails(delete(Start, items))

\* insert([]): an empty array of records
InsertNone(maxTx) ==
  /\ Len(transactions) < maxTx
  /\ Finish(insert(Start, <<>>, <<>>))

\* delete([]): an empty array of items
DeleteNone(maxTx) ==
  /\ Len(transactions) < maxTx
  /\ Finish(delete(Start, <<>>))

\* the transaction manager calls the persistence function
Persist ==
  \E i \in 1 .. Len(transactions) :
    /\ transactions[i].state = "pending"
    /\ Finish(setTransactionState(Start, i, "persisting"))

\* the persistence function resolves
Resolve ==
  \E i \in 1 .. Len(transactions) :
    /\ transactions[i].state = "persisting"
    /\ Finish(setTransactionState(Start, i, "completed"))

\* the persistence function rejects
Reject ==
  \E i \in 1 .. Len(transactions) :
    /\ transactions[i].state = "persisting"
    /\ Finish(setTransactionState(Start, i, "failed"))

\* the caller keeps state.get(k)
Hold ==
  \E k \in DOMAIN state :
    /\ Cardinality(held) < MaxHeld
    /\ Finish([Start EXCEPT !.held = @ \cup {state[k].id}])

\* the caller lets a reference go
Release ==
  \E r \in held : Finish([Start EXCEPT !.held = @ \ {r}])

StateWhenReady ==
  /\ Len(promises) < MaxPromises
  /\ Finish(stateWhenReady(Start))

ToArrayWhenReady ==
  /\ Len(promises) < MaxPromises
  /\ Finish(toArrayWhenReady(Start))

PreloadCollection(syncs) ==
  /\ Len(promises) < MaxPromises
  /\ \E id \in CollectionIds, sync \in syncs :
       Finish(preloadCollection(Start, id, sync))

OnFirstCommit ==
  /\ cbCount < MaxCb
  /\ \E kind \in {"plain", "rereg"} :
       Finish(onFirstCommit([Start EXCEPT !.cbCount = @ + 1],
                            [id |-> cbCount + 1, kind |-> kind,
                             promise |-> 0]))

(***************************************************************************)
(* Inputs                                                                  *)
(***************************************************************************)
Rec(a, b) == [f \in Fields |-> IF f = "a" THEN a ELSE b]

InsertMessage(k, v) ==
  [type |-> "insert", key |-> k, value |-> v, metadata |-> Undef]

UpdateMessage(k, v) ==
  [type |-> "update", key |-> k, value |-> v, metadata |-> Undef]

DeleteMessage(k) ==
  [type |-> "delete", key |-> k, value |-> EmptyRecord, metadata |-> Undef]

\* the change messages the sync source writes
SyncMessages ==
  {InsertMessage("k1", Rec("x", Undef)), UpdateMessage("k1", Rec(Undef, "x")),
   DeleteMessage("k1")}

\* the records the caller inserts
InsertRecords == {Rec("y", Undef)}

\* the fields a mutator writes
UpdateWrites == {Rec("y", Undef), Rec(Undef, "y")}

(***************************************************************************)
(* What the properties speak of.                                           *)
(***************************************************************************)
\* the transactions that are pending or persisting
NonTerminal(txs) ==
  {i \in 1 .. Len(txs) : txs[i].state \in {"pending", "persisting"}}

\* the buffers of the queue on which commit() was called
Committed(pst) == {i \in 1 .. Len(pst) : pst[i].committed}

\* one change folded into a Map of records: insert overwrites, update
\* merges onto the existing-or-empty record, delete removes
FoldChange(data, change) ==
  IF change.type = "delete"
  THEN [k \in (DOMAIN data) \ {change.key} |-> data[k]]
  ELSE [k \in (DOMAIN data) \cup {change.key} |->
          IF k # change.key THEN data[k]
          ELSE IF change.type = "insert" \/ k \notin DOMAIN data
               THEN change.value
               ELSE [f \in Fields |->
                       IF change.value[f] = Undef THEN data[k][f]
                       ELSE change.value[f]]]

RECURSIVE FoldChanges(_, _)
FoldChanges(data, changes) ==
  IF changes = <<>> THEN data
  ELSE FoldChanges(FoldChange(data, Head(changes)), Tail(changes))

RECURSIVE QueueChanges(_)
\* the changes of the queue, in buffer order then intra-buffer order
QueueChanges(pst) ==
  IF pst = <<>> THEN <<>> ELSE Head(pst).operations \o QueueChanges(Tail(pst))

(***************************************************************************)
(* SpecSync: the ingestion protocol, its errors included, against          *)
(* transactions that insert one record.                                    *)
(***************************************************************************)
NextSync ==
  \/ Begin(MaxQueue)
  \/ Write(SyncMessages, MaxOps)
  \/ WriteThrows(SyncMessages)
  \/ Commit
  \/ CommitThrows
  \/ Insert(InsertRecords, {"k2"}, 1, SyncTx)
  \/ Persist
  \/ Resolve
  \/ Reject

SpecSync == Init /\ [][NextSync]_vars

\* C1: a step changes SyncedDataset or SyncedMetadata only into a state in
\* which no transaction is pending or persisting: a commit() made while a
\* transaction is non-terminal leaves both unchanged, and they stay unchanged
\* for as long as any transaction is non-terminal.
C1_Gating ==
  [][NonTerminal(transactions') # {} =>
       /\ MapVals(syncedData') = MapVals(syncedData)
       /\ syncedMetadata' = syncedMetadata]_vars

\* a commit was deferred: a committed buffer with a change waits in the
\* queue while a transaction is persisting
C1_Witness ==
  /\ \E i \in Committed(pendingSyncedTransactions) :
        pendingSyncedTransactions[i].operations # <<>>
  /\ \E i \in NonTerminal(transactions) : transactions[i].state = "persisting"

ProtocolErrors ==
  {"No pending sync transaction to write to",
   "The pending sync transaction is already committed, you can't still write to it.",
   "No pending sync transaction to commit",
   "The pending sync transaction is already committed, you can't commit it again."}

\* a change was appended to the most recent buffer
Appended(before, after) ==
  /\ Len(after) = Len(before) /\ Len(before) > 0
  /\ Len(Last(after).operations) = Len(Last(before).operations) + 1

\* C8: write and commit throw when the queue is empty or its most recent
\* buffer is committed: no step appends a change to a committed buffer, each
\* protocol error is thrown in its own situation only, and a call that throws
\* one leaves the queue, SyncedDataset, SyncedMetadata and the first-commit
\* flag (and everything else) as they were.
C8_ProtocolErrors ==
  [][/\ Appended(pendingSyncedTransactions, pendingSyncedTransactions')
          => ~Last(pendingSyncedTransactions).committed
     /\ thrown' \in {"No pending sync transaction to write to",
                     "No pending sync transaction to commit"}
          => pendingSyncedTransactions = <<>>
     /\ thrown' \in ProtocolErrors
                      \ {"No pending sync transaction to write to",
                         "No pending sync transaction to commit"}
          => /\ pendingSyncedTransactions # <<>>
             /\ Last(pendingSyncedTransactions).committed
     /\ thrown' \in ProtocolErrors
          => UNCHANGED <<syncedData, syncedMetadata, pendingSyncedTransactions,
                         hasReceivedFirstCommit, onFirstCommitCallbacks,
                         objectKeyMap, transactions, state, held, invoked,
                         cbCount, promises, collectionsStore,
                         loadingCollections, instances, config>>]_vars

\* write threw on a buffer whose commit the gate deferred
C8_Witness ==
  /\ thrown = "The pending sync transaction is already committed, you can't still write to it."
  /\ NonTerminal(transactions) # {}
  /\ Committed(pendingSyncedTransactions) # {}

(***************************************************************************)
(* SpecOpen: begin() called again and again.                               *)
(***************************************************************************)
NextOpen ==
  \/ Begin(OpenQueue)
  \/ Write(SyncMessages, MaxOps)
  \/ Commit
  \/ Insert(InsertRecords, {"k2"}, 1, SyncTx)
  \/ Persist
  \/ Resolve

SpecOpen == Init /\ [][NextOpen]_vars

\* C7: the queue holds at most one open (uncommitted) buffer.
C7_OneOpenBuffer ==
  Cardinality({i \in 1 .. Len(pendingSyncedTransactions) :
                 ~pendingSyncedTransactions[i].committed}) <= 1

(***************************************************************************)
(* SpecRound: rounds of begin, write(insert), commit.                      *)
(***************************************************************************)
RoundMessages ==
  {InsertMessage(k, v) : k \in Keys, v \in {Rec("x", Undef), Rec(Undef, "y")}}

NextRound ==
  \/ Begin(MaxQueue)
  \/ Write(RoundMessages, MaxOps)
  \/ Commit
  \/ Insert(InsertRecords, {"k2"}, 1, SyncTx)
  \/ Persist
  \/ Resolve
  \/ Reject

SpecRound == Init /\ [][NextRound]_vars

\* C9: when no transaction is non-terminal, the commit() of a buffer that
\* holds the one change insert(k, v) leaves k mapped to v in SyncedDataset,
\* and state.get(k) is that record.
C9_RoundTrip ==
  [][(/\ NonTerminal(transactions) = {}
      /\ pendingSyncedTransactions # <<>>
      /\ ~Last(pendingSyncedTransactions).committed
      /\ Len(Last(pendingSyncedTransactions).operations) = 1
      /\ Last(pendingSyncedTransactions).operations[1].type = "insert"
      /\ pendingSyncedTransactions' = <<>>)
     => LET change == Last(pendingSyncedTransactions).operations[1] IN
        /\ change.key \in DOMAIN syncedData'
        /\ syncedData'[change.key].val = change.value
        /\ change.key \in DOMAIN state'
        /\ state'[change.key].val = change.value]_vars

\* an insert over a record with another field was committed with every
\* transaction terminal
C9_Witness ==
  /\ transactions # <<>> /\ NonTerminal(transactions) = {}
  /\ pendingSyncedTransactions = <<>>
  /\ \E k \in DOMAIN syncedData :
       /\ syncedData[k].val = Rec(Undef, "y")
       /\ k \in DOMAIN state /\ state[k].val = Rec(Undef, "y")

\* the states of the transactions, in creation order
TransactionStates(txs) == [i \in 1 .. Len(txs) |-> txs[i].state]

\* C19: a buffer that is open (begin() was called, commit() was not) and
\* holds writes stays in the queue with its writes over every step, except
\* the step in which commit() is called on it: no merge attempt, whether by
\* the commit() of another buffer or by the retry when a transaction becomes
\* terminal, folds or discards it.
C19_CommittedOnly ==
  [][\A b \in 1 .. Len(pendingSyncedTransactions) :
       (/\ ~pendingSyncedTransactions[b].committed
        /\ pendingSyncedTransactions[b].operations # <<>>)
       => \/ /\ b <= Len(pendingSyncedTransactions')
             /\ pendingSyncedTransactions'[b].operations
                  = pendingSyncedTransactions[b].operations
          \/ /\ b = Len(pendingSyncedTransactions)
             /\ TransactionStates(transactions')
                  = TransactionStates(transactions)
             /\ pendingSyncedTransactions' = <<>>]_vars

(***************************************************************************)
(* SpecMerge: commit rounds that insert and update one key, deferred       *)
(* behind a transaction on another key.                                    *)
(***************************************************************************)
MergeMessages ==
  {InsertMessage("k1", Rec("x", Undef)), UpdateMessage("k1", Rec(Undef, "x"))}

NextMerge ==
  \/ Begin(OpenQueue)
  \/ Write(MergeMessages, MaxOps)
  \/ Commit
  \/ Insert(InsertRecords, {"k2"}, 1, SyncTx)
  \/ Persist
  \/ Resolve

SpecMerge == Init /\ [][NextMerge]_vars

OverlayMessages ==
  {InsertMessage("k1", Rec("x", "x")), InsertMessage("k1", Rec("x", Undef))}

OverlayRecords == {Rec("x", Undef)}

NextOverlay ==
  \/ Begin(MaxQueue)
  \/ Write(OverlayMessages, MaxOps)
  \/ Commit
  \/ Insert(OverlayRecords, Keys, MaxBatch, MaxTx)
  \/ Update(UpdateWrites, MaxBatch, MaxTx)
  \/ Delete(MaxBatch, MaxTx)
  \/ Persist
  \/ Resolve
  \/ Reject

SpecOverlay == Init /\ [][NextOverlay]_vars

RECURSIVE MutationsOf(_, _, _)
\* the mutations of the transactions of S, in transaction order
MutationsOf(txs, S, i) ==
  IF i > Len(txs) THEN <<>>
  ELSE (IF i \in S THEN txs[i].mutations ELSE <<>>)
       \o MutationsOf(txs, S, i + 1)

RECURSIVE OverlayOf(_, _, _)
\* the records of the overlay that shows the given mutations over synced
OverlayOf(combined, synced, mutations) ==
  IF mutations = <<>> THEN combined
  ELSE LET mutation == Head(mutations)
           key == mutation.key
           next ==
             CASE mutation.type = "insert" ->
                    [k \in (DOMAIN combined) \cup {key} |->
                       IF k = key THEN mutation.modified ELSE combined[k]]
               [] mutation.type = "update" ->
                    [k \in (DOMAIN combined) \cup {key} |->
                       IF k # key THEN combined[k]
                       ELSE Spread(IF key \in DOMAIN synced THEN synced[key]
                                   ELSE EmptyRecord, mutation.modified)]
               [] mutation.type = "delete" ->
                    [k \in (DOMAIN combined) \ {key} |-> combined[k]]
       IN OverlayOf(next, synced, Tail(mutations))

\* the last mutation of a transaction on a key
LastOn(mutations, key) ==
  LET at == {i \in 1 .. Len(mutations) : mutations[i].key = key}
  IN mutations[CHOOSE i \in at : \A j \in at : j <= i]

\* C3: in the step in which a transaction becomes failed, the overlay keeps
\* no field value that the failed transaction wrote, unless SyncedDataset or
\* the own changes of another non-terminal transaction give that key the
\* same value in that field.
C3_Rollback ==
  [][\A i \in 1 .. Len(transactions) :
       (/\ Len(transactions') = Len(transactions)
        /\ transactions[i].state = "persisting"
        /\ transactions'[i].state = "failed")
       => \A n \in 1 .. Len(transactions[i].mutations) :
            LET mutation == transactions[i].mutations[n]
                key == mutation.key
            IN mutation.type = "update"
               => \A f \in Fields :
                    (/\ mutation.changes[f] # Undef
                     /\ key \in DOMAIN state'
                     /\ state'[key].val[f] = mutation.changes[f])
                    => \/ /\ key \in DOMAIN syncedData'
                          /\ syncedData'[key].val[f] = mutation.changes[f]
                       \/ \E j \in NonTerminal(transactions') :
                            \E o \in 1 .. Len(transactions'[j].mutations) :
                              /\ transactions'[j].mutations[o].key = key
                              /\ transactions'[j].mutations[o].changes[f]
                                   = mutation.changes[f]]_vars

\* C4: in the step in which insert, update or delete returns a transaction,
\* the overlay shows each key the transaction touched as its last mutation
\* on that key leaves it: present with the modified record, or absent.
C4_Visible ==
  [][Len(transactions') = Len(transactions) + 1
     => LET mutations == Last(transactions').mutations IN
        \A n \in 1 .. Len(mutations) :
          LET mutation == LastOn(mutations, mutations[n].key) IN
          IF mutation.type = "delete"
          THEN mutation.key \notin DOMAIN state'
          ELSE /\ mutation.key \in DOMAIN state'
               /\ state'[mutation.key].val = mutation.modified]_vars

\* C5: the overlay is SyncedDataset with the mutations of the pending and
\* persisting transactions over it, whatever the completed and failed
\* transactions hold; and the merge of the backend's insert(K, v), with every
\* transaction terminal and one of them completed with that same insert,
\* puts K in SyncedDataset and makes the overlay SyncedDataset with K at v.
C5_ActiveOnly ==
  /\ [](MapVals(state) =
          OverlayOf(MapVals(syncedData), MapVals(syncedData),
                    MutationsOf(transactions, NonTerminal(transactions), 1)))
  /\ [][\A i \in 1 .. Len(transactions) :
          (/\ NonTerminal(transactions) = {}
           /\ transactions' = transactions
           /\ transactions[i].state = "completed"
           /\ Len(transactions[i].mutations) = 1
           /\ transactions[i].mutations[1].type = "insert"
           /\ Len(QueueChanges(pendingSyncedTransactions)) = 1
           /\ QueueChanges(pendingSyncedTransactions)[1] =
                InsertMessage(transactions[i].mutations[1].key,
                              transactions[i].mutations[1].modified)
           /\ pendingSyncedTransactions' = <<>>)
          => LET key == transactions[i].mutations[1].key
                 value == transactions[i].mutations[1].modified
             IN /\ key \in DOMAIN syncedData'
                /\ MapVals(state') =
                     [k \in (DOMAIN syncedData) \cup {key} |->
                        IF k = key THEN value ELSE syncedData[k].val]]_vars

\* the backend's insert arrived after the transaction that made it completed,
\* next to a failed transaction whose insert the overlay does not show
C5_Witness ==
  /\ pendingSyncedTransactions = <<>>
  /\ \E i \in 1 .. Len(transactions) :
       /\ transactions[i].state = "completed"
       /\ Len(transactions[i].mutations) = 1
       /\ transactions[i].mutations[1].type = "insert"
       /\ transactions[i].mutations[1].key \in DOMAIN syncedData
       /\ syncedData[transactions[i].mutations[1].key].val =
            transactions[i].mutations[1].modified
       /\ transactions[i].mutations[1].key \in DOMAIN state
       /\ state[transactions[i].mutations[1].key].val =
            transactions[i].mutations[1].modified
  /\ \E i \in 1 .. Len(transactions) :
       /\ transactions[i].state = "failed"
       /\ transactions[i].mutations[1].type = "insert"
       /\ transactions[i].mutations[1].key \notin DOMAIN state

\* C6: the overlay is SyncedDataset with the whole mutation lists of some of
\* the transactions over it: no transaction shows some of its mutations and
\* not the others.
C6_Atomic ==
  \E S \in SUBSET (1 .. Len(transactions)) :
    MapVals(state) =
      OverlayOf(MapVals(syncedData), MapVals(syncedData),
                MutationsOf(transactions, S, 1))

\* a transaction with two mutations on two keys is shown whole, next to a
\* terminal transaction with two mutations that is not shown at all
C6_Witness ==
  /\ \E i \in NonTerminal(transactions) :
       /\ Len(transactions[i].mutations) = 2
       /\ transactions[i].mutations[1].key # transactions[i].mutations[2].key
       /\ transactions[i].mutations[1].type = "insert"
       /\ transactions[i].mutations[2].type = "insert"
       /\ \A n \in 1 .. 2 : transactions[i].mutations[n].key \in DOMAIN state
  /\ \E i \in 1 .. Len(transactions) :
       /\ i \notin NonTerminal(transactions)
       /\ Len(transactions[i].mutations) = 2
       /\ transactions[i].mutations[1].key # transactions[i].mutations[2].key

\* the changes the caller made, as changes to fold: what an insert put,
\* the fields an update wrote, a delete
MutationChanges(mutations) ==
  [i \in 1 .. Len(mutations) |->
     [type |-> mutations[i].type, key |-> mutations[i].key,
      value |-> mutations[i].changes]]

\* no two mutations of the transactions ever created are on the same key
DisjointKeys ==
  LET all == MutationsOf(transactions, 1 .. Len(transactions), 1) IN
  \A i, j \in 1 .. Len(all) : i # j => all[i].key # all[j].key

\* C16: when the insert, update and delete calls made so far are on
\* pairwise disjoint keys, the overlay is SyncedDataset with the changes of
\* the pending and persisting transactions folded over it in creation order.
C16_DisjointKeys ==
  DisjointKeys
  => MapVals(state) =
       FoldChanges(MapVals(syncedData),
                   MutationChanges(MutationsOf(transactions,
                                               NonTerminal(transactions), 1)))

\* an update of a synced record survives next to a failed transaction on
\* another key, after an ingestion round
C16_Witness ==
  /\ DisjointKeys
  /\ Len(transactions) = 2
  /\ transactions[1].state = "failed"
  /\ transactions[2].state = "pending"
  /\ transactions[2].mutations[1].type = "update"
  /\ transactions[2].mutations[1].key \in DOMAIN syncedData
  /\ state[transactions[2].mutations[1].key].val
       # syncedData[transactions[2].mutations[1].key].val

\* the keys the mutations of a transaction are on
KeysOf(transaction) ==
  {transaction.mutations[n].key : n \in 1 .. Len(transaction.mutations)}

\* C18: in the step in which a transaction becomes failed, every other
\* transaction keeps its state and the changes of its mutations; each key that a pending or
\* persisting transaction touched and the failed one did not is in the
\* overlay with the same record, or absent, as before; and if no transaction
\* is left pending or persisting, the merge proceeds in that step: the
\* queued changes are folded into SyncedDataset and the queue is empty.
C18_FailureIsolation ==
  [][\A i \in 1 .. Len(transactions) :
       (/\ Len(transactions') = Len(transactions)
        /\ transactions[i].state = "persisting"
        /\ transactions'[i].state = "failed")
       => /\ \A j \in (1 .. Len(transactions)) \ {i} :
               /\ transactions'[j].state = transactions[j].state
               /\ MutationChanges(transactions'[j].mutations)
                    = MutationChanges(transactions[j].mutations)
          /\ \A j \in NonTerminal(transactions') :
               \A key \in KeysOf(transactions[j]) \ KeysOf(transactions[i]) :
                 /\ (key \in DOMAIN state') = (key \in DOMAIN state)
                 /\ key \in DOMAIN state => state'[key].val = state[key].val
          /\ NonTerminal(transactions') = {}
             => /\ pendingSyncedTransactions' = <<>>
                /\ MapVals(syncedData') =
                     FoldChanges(MapVals(syncedData),
                                 QueueChanges(pendingSyncedTransactions))]_vars

\* a transaction has failed next to a persisting transaction whose insert on
\* another key the overlay shows, while a committed buffer waits
C18_Witness ==
  /\ Len(transactions) = 2
  /\ transactions[1].state = "failed"
  /\ transactions[2].state = "persisting"
  /\ transactions[2].mutations[1].type = "insert"
  /\ transactions[2].mutations[1].key \notin KeysOf(transactions[1])
  /\ transactions[2].mutations[1].key \in DOMAIN state
  /\ transactions[2].mutations[1].key \notin DOMAIN syncedData
  /\ \E b \in Committed(pendingSyncedTransactions) :
        pendingSyncedTransactions[b].operations # <<>>

(***************************************************************************)
(* SpecCb: callers of onFirstCommit around the ingestion protocol and a    *)
(* transaction.                                                            *)
(***************************************************************************)
CbMessages == {InsertMessage("k1", Rec("x", Undef))}

NextCb ==
  \/ OnFirstCommit
  \/ Begin(MaxQueue)
  \/ Write(CbMessages, MaxOps)
  \/ Commit
  \/ Insert(InsertRecords, {"k2"}, 1, SyncTx)
  \/ Persist
  \/ Resolve

SpecCb == Init /\ [][NextCb]_vars

CallbackIds(callbacks) == [i \in 1 .. Len(callbacks) |-> callbacks[i].id]

Reregisters(callback) == callback.kind = "rereg"

\* C10: the step of the first merge (the received-first-commit flag turns
\* true) invokes the callbacks registered until then, each once, in
\* registration order, and leaves in the list only what the callbacks
\* registered while they ran; no other step invokes a callback, and the
\* flag never turns false again.
C10_FirstCommit ==
  [][/\ (~hasReceivedFirstCommit /\ hasReceivedFirstCommit')
          => /\ invoked = <<>>
             /\ invoked' = CallbackIds(onFirstCommitCallbacks)
             /\ onFirstCommitCallbacks' =
                  SelectSeq(onFirstCommitCallbacks, Reregisters)
     /\ (hasReceivedFirstCommit' = hasReceivedFirstCommit)
          => invoked' = invoked
     /\ hasReceivedFirstCommit => hasReceivedFirstCommit']_vars

\* two callbacks were invoked by the first merge, one that registered itself
\* again waits in the list, and a record has been merged
C10_Witness ==
  /\ hasReceivedFirstCommit
  /\ invoked = <<1, 2>>
  /\ onFirstCommitCallbacks # <<>>
  /\ "k1" \in DOMAIN syncedData
  /\ transactions # <<>>

(***************************************************************************)
(* SpecReady: callers of stateWhenReady and toArrayWhenReady around the    *)
(* ingestion protocol and a transaction.                                   *)
(***************************************************************************)
ReadyMessages == {InsertMessage("k1", Rec("x", Undef))}

NextReady ==
  \/ StateWhenReady
  \/ ToArrayWhenReady
  \/ Begin(MaxQueue)
  \/ Write(ReadyMessages, MaxOps)
  \/ Commit
  \/ Insert(InsertRecords, {"k2"}, 1, SyncTx)
  \/ Persist
  \/ Resolve

SpecReady == Init /\ [][NextReady]_vars

\* what a promise of stateWhenReady / toArrayWhenReady resolves with
ReadyValue(kind, overlay) ==
  IF kind = "state" THEN MapVals(overlay) ELSE ArrayFrom(overlay, KeySeq, 1)

PreloadMessages == {InsertMessage("k1", Rec("x", Undef))}

\* what sync() does before it returns
PreloadSyncs == {<<>>} \cup {<<message>> : message \in PreloadMessages}

NextPreload ==
  \/ PreloadCollection(PreloadSyncs)
  \/ instances > 0 /\ Begin(MaxQueue)
  \/ instances > 0 /\ Write(PreloadMessages, MaxOps)
  \/ instances > 0 /\ Commit
  \/ instances > 0 /\ Insert(InsertRecords, {"k2"}, 1, SyncTx)
  \/ Persist
  \/ Resolve
  \/ Reject

SpecPreload == InitPreload /\ [][NextPreload]_vars

\* C12: once the first commit of the collection has been merged, its id is
\* no longer in the loading set and no promise of preloadCollection is
\* pending.
C12_PreloadResolves ==
  hasReceivedFirstCommit
  => /\ loadingCollections = EmptyMap
     /\ \A i \in 1 .. Len(promises) :
          promises[i].kind = "preload" => promises[i].status = "resolved"

\* C13: at most one Collection is constructed for the id (so sync() is
\* called once), every promise of preloadCollection that is resolved holds
\* the Collection of the registry, and a call made while the id is loading
\* returns the promise of the loading set and creates none.
C13_Deduplication ==
  /\ [](/\ instances <= 1
        /\ \A i \in 1 .. Len(promises) :
             (promises[i].kind = "preload" /\ promises[i].status = "resolved")
             => /\ MapHas(collectionsStore, "c1")
                /\ promises[i].value = <<collectionsStore["c1"]>>)
  /\ [][(MapHas(loadingCollections, "c1") /\ returned' # 0)
        => /\ returned' = loadingCollections["c1"]
           /\ promises' = promises
           /\ instances' = instances]_vars

\* a second call was made while the id was loading, after the sync source
\* had begun a buffer, and got the loading promise
C13_Witness ==
  /\ MapHas(loadingCollections, "c1")
  /\ returned = loadingCollections["c1"]
  /\ pendingSyncedTransactions # <<>>
  /\ instances = 1
  /\ Len(promises) = 1

(***************************************************************************)
(* SpecFailed: insert, update and delete calls that throw, under every     *)
(* config, next to calls that return.                                      *)
(***************************************************************************)
FailedMessages == {InsertMessage("k1", Rec("x", "x"))}

FailedRecords == {Rec("x", Undef), Rec("y", Undef)}

\* the mutators: one writes nothing
FailedWrites == UpdateWrites \cup {EmptyRecord}

NextFailed ==
  \/ Begin(MaxQueue)
  \/ Write(FailedMessages, MaxOps)
  \/ Commit
  \/ Insert(FailedRecords, {"k2"}, MaxBatch, SyncTx)
  \/ InsertThrows(FailedRecords, {"k2"}, MaxBatch)
  \/ Update(FailedWrites, MaxBatch, SyncTx)
  \/ UpdateThrows(FailedWrites, MaxBatch)
  \/ Delete(MaxBatch, SyncTx)
  \/ DeleteThrows(MaxBatch)
  \/ Hold
  \/ Release
  \/ Persist
  \/ Resolve

SpecFailed == InitConfig /\ [][NextFailed]_vars

NoChanges == "No changes were made to any of the objects"

\* C14: an update call that throws the no-changes error leaves the
\* transactions, the overlay and everything the merge gate reads as they
\* were, and no update creates a transaction without a mutation or with a
\* mutation that changes no field.
C14_NoopUpdate ==
  [][/\ thrown' = NoChanges
          => /\ UNCHANGED <<transactions, state, syncedData, syncedMetadata,
                            pendingSyncedTransactions, objectKeyMap>>
             /\ CanCommit(transactions') = CanCommit(transactions)
     /\ Len(transactions') > Len(transactions)
          => /\ Last(transactions').mutations # <<>>
             /\ \A i \in 1 .. Len(Last(transactions').mutations) :
                  Last(transactions').mutations[i].type = "update"
                  => Last(transactions').mutations[i].changes # EmptyRecord]_vars

\* a no-op update threw while a transaction held the merge gate closed
C14_Witness ==
  /\ thrown = NoChanges
  /\ NonTerminal(transactions) # {}
  /\ state # EmptyMap

MutationErrors ==
  {NoMutationFn, "SchemaValidationError", "Object not found in collection"}

\* C17: an insert, update or delete call that throws for a missing
\* mutationFn, a schema rejection or an untracked reference leaves the
\* transactions, the overlay, SyncedDataset, the buffer queue and the
\* identity association as they were; a transaction is created only with a
\* mutationFn configured and only of records the schema accepts.
C17_FailedCalls ==
  [][/\ thrown' \in MutationErrors
          => UNCHANGED <<transactions, state, syncedData, syncedMetadata,
                         pendingSyncedTransactions, objectKeyMap,
                         hasReceivedFirstCommit, held>>
     /\ Len(transactions') > Len(transactions)
          => /\ config.mutationFn
             /\ config.schema
                  => \A i \in 1 .. Len(Last(transactions').mutations) :
                       LET mutation == Last(transactions').mutations[i] IN
                       /\ mutation.type = "insert"
                            => SchemaAccepts(mutation.modified)
                       /\ mutation.type = "update"
                            => SchemaAccepts(
                                 IF mutation.key \in DOMAIN state
                                 THEN Spread(state[mutation.key].val,
                                             mutation.changes)
                                 ELSE mutation.changes)]_vars

\* a call threw for an untracked reference the caller had kept, while a
\* transaction was pending
C17_Witness ==
  /\ thrown = "Object not found in collection"
  /\ held # {}
  /\ \A r \in held : r \notin DOMAIN objectKeyMap
  /\ NonTerminal(transactions) # {}

(***************************************************************************)
(* SpecStale: a caller that keeps record references across updates and     *)
(* deletes.                                                                *)
(***************************************************************************)
NextStale ==
  \/ Begin(MaxQueue)
  \/ Write(FailedMessages, MaxOps)
  \/ Commit
  \/ Hold
  \/ Release
  \/ Update(UpdateWrites, 1, MaxTx)
  \/ UpdateThrows(UpdateWrites, 1)
  \/ Delete(1, MaxTx)
  \/ Persist
  \/ Resolve
  \/ Reject

SpecStale == Init /\ [][NextStale]_vars

\* the keys a non-terminal transaction deleted and the overlay does not show
DeletedKeys ==
  {key \in Keys \ DOMAIN state :
     \E i \in NonTerminal(transactions) :
       \E n \in 1 .. Len(transactions[i].mutations) :
         /\ transactions[i].mutations[n].type = "delete"
         /\ transactions[i].mutations[n].key = key}

\* C15: while a key is deleted (a pending or persisting delete has removed
\* it from the overlay), no update call creates a transaction for it: every
\* reference that was associated with the key is untracked.
C15_StaleReference ==
  [][Len(transactions') = Len(transactions) + 1
     => \A n \in 1 .. Len(Last(transactions').mutations) :
          Last(transactions').mutations[n].type = "update"
          => Last(transactions').mutations[n].key \notin DeletedKeys]_vars

\* C21: the received-first-commit flag turns true, and first-commit
\* callbacks are invoked, only in a step in which the sync source calls
\* commit(): the last buffer of the queue was open and no transaction
\* changed its state; never in the retry of the merge when a transaction
\* becomes terminal.
C21_OnlyOnCommit ==
  [][(\/ ~hasReceivedFirstCommit /\ hasReceivedFirstCommit'
      \/ invoked' # invoked)
     => /\ pendingSyncedTransactions # <<>>
        /\ ~Last(pendingSyncedTransactions).committed
        /\ TransactionStates(transactions') = TransactionStates(transactions)
    ]_vars

(***************************************************************************)
(* SpecShadow: transactions of one mutation each, all on the key the sync  *)
(* source inserts.                                                         *)
(***************************************************************************)
NextShadow ==
  \/ Begin(MaxQueue)
  \/ Write(OverlayMessages, MaxOps)
  \/ Commit
  \/ Insert(OverlayRecords, {"k1"}, 1, MaxTx)
  \/ Update(UpdateWrites, 1, MaxTx)
  \/ Delete(1, MaxTx)
  \/ Persist
  \/ Resolve
  \/ Reject

SpecShadow == Init /\ [][NextShadow]_vars

\* the changes of the mutations as the overlay is to apply them: an insert
\* and an update merge their fields into the record, a delete removes it
MergedChanges(mutations) ==
  [i \in 1 .. Len(mutations) |->
     [type |-> IF mutations[i].type = "delete" THEN "delete" ELSE "update",
      key |-> mutations[i].key,
      value |-> mutations[i].changes]]

\* the keys on which two or more pending or persisting transactions hold
\* mutations
SharedKeys ==
  {key \in Keys :
     Cardinality({i \in NonTerminal(transactions) :
                    key \in KeysOf(transactions[i])}) >= 2}

\* C22: a key on which several pending or persisting transactions hold
\* mutations shows in the overlay what applying those mutations to
\* SyncedDataset gives, in transaction creation order then mutation order:
\* an insert and an update merge their fields into the existing-or-empty
\* record, a delete removes the key.
C22_Shadowing ==
  LET applied ==
        FoldChanges(MapVals(syncedData),
                    MergedChanges(MutationsOf(transactions,
                                              NonTerminal(transactions), 1)))
  IN \A key \in SharedKeys :
       /\ (key \in DOMAIN state) = (key \in DOMAIN applied)
       /\ key \in DOMAIN state => state[key].val = applied[key]

\* C23: SyncedMetadata and SyncedDataset hold the same keys in every state,
\* so that a key enters and leaves both in the same step; and a commit()
\* whose merge is deferred (the buffer stays in the queue, committed)
\* changes neither.
C23_Lockstep ==
  /\ [](DOMAIN syncedMetadata = DOMAIN syncedData)
  /\ [][(/\ pendingSyncedTransactions # <<>>
         /\ ~Last(pendingSyncedTransactions).committed
         /\ pendingSyncedTransactions' # <<>>
         /\ Last(pendingSyncedTransactions').committed)
        => /\ syncedMetadata' = syncedMetadata
           /\ MapVals(syncedData') = MapVals(syncedData)]_vars

\* a key is in both maps after a merge, and the commit() of a buffer that
\* deletes it was deferred behind a persisting transaction
C23_Witness ==
  /\ DOMAIN syncedData = {"k1"}
  /\ DOMAIN syncedMetadata = {"k1"}
  /\ \E i \in NonTerminal(transactions) : transactions[i].state = "persisting"
  /\ \E b \in Committed(pendingSyncedTransactions) :
        /\ pendingSyncedTransactions[b].operations # <<>>
        /\ pendingSyncedTransactions[b].operations[1].type = "delete"

(***************************************************************************)
(* SpecBatch: the mutation API called with arrays of records and items,    *)
(* the empty array included.                                               *)
(***************************************************************************)
NextBatch ==
  \/ Begin(MaxQueue)
  \/ Write(OverlayMessages, MaxOps)
  \/ Commit
  \/ Insert(OverlayRecords, {"k2"}, MaxBatch, MaxTx)
  \/ InsertNone(MaxTx)
  \/ Update(UpdateWrites, MaxBatch, MaxTx)
  \/ Delete(MaxBatch, MaxTx)
  \/ DeleteNone(MaxTx)
  \/ Persist
  \/ Resolve

SpecBatch == Init /\ [][NextBatch]_vars

\* C24: every transaction holds at least one mutation, and all its mutations
\* are of one kind, whatever array insert, update or delete was given.
C24_NonEmpty ==
  \A i \in 1 .. Len(transactions) :
    /\ transactions[i].mutations # <<>>
    /\ \A m, n \in 1 .. Len(transactions[i].mutations) :
         transactions[i].mutations[m].type = transactions[i].mutations[n].type

\* C25: a step in which insert, update or delete creates a transaction, or
\* in which a transaction goes from pending to persisting, leaves
\* SyncedDataset, SyncedMetadata and the queue of buffers as they were; and
\* a step that changes SyncedDataset or SyncedMetadata is a permitted merge
\* of committed buffers: no transaction is pending or persisting after it,
\* and every buffer of the queue that holds writes was committed, or is the
\* last one and is committed by the commit() of that step.
C25_SyncedFrame ==
  [][/\ (\/ Len(transactions') = Len(transactions) + 1
         \/ \E i \in 1 .. Len(transactions) :
              /\ Len(transactions') = Len(transactions)
              /\ transactions[i].state = "pending"
              /\ transactions'[i].state = "persisting")
        => /\ MapVals(syncedData') = MapVals(syncedData)
           /\ syncedMetadata' = syncedMetadata
           /\ pendingSyncedTransactions' = pendingSyncedTransactions
     /\ (\/ MapVals(syncedData') # MapVals(syncedData)
         \/ syncedMetadata' # syncedMetadata)
        => /\ NonTerminal(transactions') = {}
           /\ \A b \in 1 .. Len(pendingSyncedTransactions) :
                \/ pendingSyncedTransactions[b].committed
                \/ pendingSyncedTransactions[b].operations = <<>>
                \/ /\ b = Len(pendingSyncedTransactions)
                   /\ TransactionStates(transactions')
                        = TransactionStates(transactions)]_vars

(***************************************************************************)
(* SpecShape: updates of a synced record, with and without a schema, by    *)
(* transactions that follow one another on the same key.                   *)
(***************************************************************************)
ShapeWrites == {Rec("y", Undef), Rec(Undef, "y"), Rec(Undef, "x")}

NextShape ==
  \/ Begin(MaxQueue)
  \/ Write(FailedMessages, MaxOps)
  \/ Commit
  \/ Update(ShapeWrites, 1, MaxTx)
  \/ UpdateThrows(ShapeWrites, 1)
  \/ Persist
  \/ Resolve

SpecShape == InitConfig /\ [][NextShape]_vars

\* C26: in the step in which update creates a transaction, each of its
\* mutations has as original the record the overlay showed for the key when
\* update was called, as changes fields that differ from that record and
\* at least one of them, and as modified that record with the changes over
\* it.
C26_UpdateShape ==
  [][Len(transactions') = Len(transactions) + 1
     => \A n \in 1 .. Len(Last(transactions').mutations) :
          LET mutation == Last(transactions').mutations[n]
              shown == IF mutation.key \in DOMAIN state
                       THEN state[mutation.key].val ELSE EmptyRecord
          IN mutation.type = "update"
             => /\ mutation.original = shown
                /\ mutation.changes # EmptyRecord
                /\ \A f \in Fields :
                     mutation.changes[f] # Undef
                     => mutation.changes[f] # shown[f]
                /\ mutation.modified = Spread(shown, mutation.changes)]_vars

\* under a schema, a second transaction updated a field of a record whose
\* overlay value held the change of the first, still pending or persisting
C26_Witness ==
  /\ config.schema
  /\ Len(transactions) = 2
  /\ 1 \in NonTerminal(transactions)
  /\ transactions[2].mutations[1].type = "update"
  /\ transactions[2].mutations[1].key \in DOMAIN syncedData
  /\ transactions[2].mutations[1].original
       # syncedData[transactions[2].mutations[1].key].val
  /\ transactions[2].mutations[1].changes
       # transactions[2].mutations[1].modified

\* C27: the object that state.get(K) returns for a key K of the overlay is
\* tracked for K: update and delete given that object resolve to K.
C27_Tracked ==
  \A key \in DOMAIN state :
    /\ state[key].id \in DOMAIN objectKeyMap
    /\ objectKeyMap[state[key].id] = key

====
